---- MODULE Spec2Model ----
(***************************************************************************)
(* Model of the zenoh session manager (zenoh/zenoh_manager.cpp,            *)
(* zenoh/zenoh_heartbeat.c, zenoh/zenoh_config.h).                         *)
(*                                                                         *)
(* Processes: the background task zenoh_client_task, the heartbeat task,   *)
(* an application control thread calling start()/stop(), an application    *)
(* publisher thread calling zenoh_publish()/zenoh_publish_binary(), and    *)
(* (in QSpec) the transport read task running client_query_handler         *)
(* against zenoh_register_query_provider().  Each call into zenoh-pico or  *)
(* FreeRTOS is one atomic step; the statements of the manager between two  *)
(* such calls belong to the step of the call that precedes them.           *)
(*                                                                         *)
(* zenoh-pico owned handles follow the library's gravestone contract: a    *)
(* handle is "valid" or "null", z_drop releases a valid handle and leaves  *)
(* it null, and z_drop of a null handle does nothing.                      *)
(***************************************************************************)
EXTENDS Integers, Sequences, FiniteSets, TLC

\* ------------------------------------------------------------ bounds
MaxFailures == 2      \* failed z_open attempts per run of the background task
MaxCalls    == 3      \* start()/stop() calls made by the control thread
MaxPub      == 2      \* publish / publish_binary calls made by the publisher thread
MaxHb       == 1      \* heartbeats published by the heartbeat task
MaxQueries  == 2      \* inbound queries delivered to the query handler

\* ------------------------------------------------------------ zenoh_config.h
ZENOH_ROLE_CLIENT == 1
ZENOH_ROLE_SERVER == 0
ZENOH_TRANSPORT_TCP_CLIENT == 1
ZENOH_TRANSPORT_TCP_PEER   == 2
ZENOH_TRANSPORT_UDP_PEER   == 3
ZENOH_CONNECTED_BIT   == 2
ZENOH_DECLARED_BIT    == 4
ZENOH_STOP_BIT        == 8
TRANSFER_COMPLETE_BIT == 16
RETRY_DELAY_MS == 15000

Roles      == {ZENOH_ROLE_CLIENT, ZENOH_ROLE_SERVER}
Transports == {ZENOH_TRANSPORT_TCP_CLIENT, ZENOH_TRANSPORT_TCP_PEER, ZENOH_TRANSPORT_UDP_PEER}

\* A configuration block without its #error directives.
ConfigValid_AcceptAll(r, t) == TRUE

\* The #error directives of the derived-configuration block.
ConfigValid(r, t) ==
    /\ (t = ZENOH_TRANSPORT_TCP_CLIENT => r = ZENOH_ROLE_CLIENT)
    /\ (t = ZENOH_TRANSPORT_TCP_PEER   => r = ZENOH_ROLE_SERVER)

ZENOH_MODE(t)     == IF t = ZENOH_TRANSPORT_TCP_CLIENT THEN "client" ELSE "peer"
ZENOH_PROTOCOL(t) == IF t = ZENOH_TRANSPORT_UDP_PEER THEN "udp" ELSE "tcp"
QUERYABLE_ON(r)   == r = ZENOH_ROLE_CLIENT
KEYEXPR_PUB(r)    == IF r = ZENOH_ROLE_CLIENT THEN "faces/announcements" ELSE "faces/results"
KEYEXPR_DATA_QUERY == "faces/data"
\* A configuration that subscribes to the topic it publishes on.
KEYEXPR_SUB_SameAsPub(r) == KEYEXPR_PUB(r)
KEYEXPR_SUB(r)    == IF r = ZENOH_ROLE_CLIENT THEN "faces/results" ELSE "faces/announcements"

\* z_open results: 0 on success; the negative codes the task names in its
\* switch, and one code ("OTHER") that falls through to the default label.
Z_OK == "Z_OK"
OpenErrors == {"TRANSPORT_NOT_AVAILABLE", "TRANSPORT_OPEN_FAILED",
               "TRANSPORT_OPEN_SN_RESOLUTION", "CONFIG_LOCATOR_INVALID",
               "CONFIG_UNSUPPORTED_CLIENT_MULTICAST",
               "CONFIG_UNSUPPORTED_PEER_UNICAST", "GENERIC_ERROR", "OTHER"}

EventGroups == {1, 2}      \* event groups the application can pass to start()
NoGroup     == 0           \* app_event_group == NULL
NoKey       == "none"      \* no declaration made yet

VARIABLES
    \* build-time configuration (fixed by Init)
    role, transport, heartbeat_on,
    \* zenoh_manager.cpp file-scope state
    session, zenoh_task_handle, app_event_group,
    main_subscriber, main_publisher, g_publisher_declared, queryable,
    g_query_provider, g_query_provider_ctx,
    \* zenoh_heartbeat.c file-scope state
    heartbeat_publisher, subscriber_heartbeat, heartbeat_task_handle,
    \* the application's event groups: group -> set of bits that are set
    bits,
    \* zenoh_client_task: position and locals
    tpc, net_info, config, res, sesson_opened,
    \* heartbeat_task: position, the event group it was given, heartbeats sent,
    \* heartbeat tasks whose handle was overwritten while they were alive
    hpc, hb_group, hb_sent, hb_orphans,
    \* control thread: position, number of calls made
    cpc, calls,
    \* publisher thread: position, calls made, the buffer of a binary call
    ppc, pubs, buf_frees, payload_owner,
    \* read task running client_query_handler, and the registering thread
    qpc, q_cb, q_ctx, queries, replies, rpc, r_arg,
    \* the device has crashed (access through a released handle, null call)
    crashed,
    \* history of the current run of the background task
    attempts, failures, slept_ms, rw_started, declared,
    \* history across runs
    released, stops_in_row, stop_calls, starts, pub_log, last_open,
    \* the data handler the running task was created with (its arg), the key
    \* expressions the declarations were made on, the arguments a start() call
    \* holds between its guard and its xTaskCreate
    data_handler, pub_key, sub_key, c_arg,
    \* the xEventGroupSetBits calls the task has made in its current run, per bit
    set_calls,
    \* a second application task calling start(), and the background tasks that
    \* are alive while zenoh_task_handle names another task
    cpc2, task_orphans

vars == << role, transport, heartbeat_on,
           session, zenoh_task_handle, app_event_group,
           main_subscriber, main_publisher, g_publisher_declared, queryable,
           g_query_provider, g_query_provider_ctx,
           heartbeat_publisher, subscriber_heartbeat, heartbeat_task_handle,
           bits, tpc, net_info, config, res, sesson_opened,
           hpc, hb_group, hb_sent, hb_orphans, cpc, calls,
           ppc, pubs, buf_frees, payload_owner,
           qpc, q_cb, q_ctx, queries, replies, rpc, r_arg, crashed,
           attempts, failures, slept_ms, rw_started, declared,
           released, stops_in_row, stop_calls, starts, pub_log, last_open,
           data_handler, pub_key, sub_key, c_arg, set_calls, cpc2, task_orphans >>

\* groups of variables, for UNCHANGED
cfgVars   == << role, transport, heartbeat_on >>
keyVars   == << pub_key, sub_key >>
raceVars  == << cpc2, task_orphans >>
auxVars   == << data_handler, keyVars, c_arg, set_calls, raceVars >>
hbVars    == << heartbeat_publisher, subscriber_heartbeat, heartbeat_task_handle,
                hpc, hb_group, hb_sent, hb_orphans >>
pubVars   == << ppc, pubs, buf_frees, payload_owner, pub_log >>
queryVars == << g_query_provider, g_query_provider_ctx, qpc, q_cb, q_ctx,
                queries, replies, rpc, r_arg >>
ctlVars   == << cpc, calls, stops_in_row, stop_calls, starts >>
runVars   == << attempts, failures, slept_ms, rw_started, declared, last_open >>
taskLocals == << net_info, config, res, sesson_opened >>
coreHandles == << session, main_subscriber, main_publisher, g_publisher_declared,
                  queryable >>


\* ------------------------------------------------------------ helpers
NULL == 0
Handles == {"session", "sub", "pub", "query", "hb_pub", "hb_sub", "task", "hb_task"}
Decls   == {"sub", "pub", "query"}

\* active_network_interface(): the zeroed struct when the lookup fails,
\* otherwise the station interface and its address.
NetInfos == { [ip_address |-> "", interface_name |-> ""],
              [ip_address |-> "192.168.137.7", interface_name |-> "st1"] }
NoNetInfo == [ip_address |-> "?", interface_name |-> "?"]

ZENOH_SERVER_IP    == "192.168.137.2"
ZENOH_PORT         == "7447"
ZENOH_MULTICAST_IP == "224.0.0.251"
NoEndpoint == << >>
NoConfig   == [mode |-> "none", connect |-> NoEndpoint, listen |-> NoEndpoint,
               scouting |-> "none"]

\* zenoh_utils_set_primary_listener: "%s/%s:%s#iface=%s"
zenoh_utils_set_primary_listener(protocol, ip, port, iface) ==
    << protocol, ip, port, iface >>

\* A build in which the macro is left undefined: the preprocessor reads 0.
I_AM_CONSUMER_OR_SERVER_Undefined(r) == 0

\* I_AM_CONSUMER_OR_SERVER: 1 in the build of the consumer, the client role,
\* which connects to the server and answers its data queries; 0 in the build
\* of the server, which issues them.
I_AM_CONSUMER_OR_SERVER(r) == IF r = ZENOH_ROLE_CLIENT THEN 1 ELSE 0

\* The configuration object one pass of the retry loop builds: z_config_default,
\* the mode, and the connect or listen endpoint of the transport.
BuildConfig(r, t, ni) ==
    LET proto == ZENOH_PROTOCOL(t)
        ip_to_use == IF ZENOH_MULTICAST_IP # "" THEN ZENOH_MULTICAST_IP
                     ELSE IF ni.ip_address # "" THEN ni.ip_address
                     ELSE "0.0.0.0"
    IN  IF proto = "udp"
        THEN [mode |-> ZENOH_MODE(t), connect |-> NoEndpoint,
              listen |-> zenoh_utils_set_primary_listener(proto, ip_to_use, ZENOH_PORT,
                                                          ni.interface_name),
              scouting |-> "default"]
        ELSE IF I_AM_CONSUMER_OR_SERVER(r) = 1
        THEN [mode |-> ZENOH_MODE(t),
              connect |-> << "tcp", ZENOH_SERVER_IP, ZENOH_PORT >>,
              listen |-> NoEndpoint, scouting |-> "false"]
        ELSE [mode |-> ZENOH_MODE(t), connect |-> NoEndpoint,
              listen |-> zenoh_utils_set_primary_listener(proto, ni.ip_address,
                                                          ZENOH_PORT, ni.interface_name),
              scouting |-> "false"]

NoSetCalls == [b \in {ZENOH_CONNECTED_BIT, ZENOH_DECLARED_BIT} |-> 0]

\* A call that stores the bit in place of the group's bits.
xEventGroupSetBits_Overwrite(g, bit) == [bits EXCEPT ![g] = {bit}]

\* xEventGroupSetBits(app_event_group, bit)
xEventGroupSetBits(g, bit) == [bits EXCEPT ![g] = @ \cup {bit}]

\* A build that declares the query responder whatever the role.
QueryableApplicable_AnyRole == TRUE

\* Is the query responder one of this build's declarations?
\* #if QUERYABLE_ON && I_AM_CONSUMER_OR_SERVER == 1
QueryableApplicable == QUERYABLE_ON(role) /\ I_AM_CONSUMER_OR_SERVER(role) = 1

\* Is zenoh_get_data part of this build?  #if I_AM_CONSUMER_OR_SERVER == 0
GetAvailable == I_AM_CONSUMER_OR_SERVER(role) = 0
Applicable == IF QueryableApplicable THEN Decls ELSE Decls \ {"query"}

\* Where the task goes after the publisher declaration, and after the
\* query-responder declaration.
\* A task that sets Declared without running the heartbeat init.
AfterQuery_NoHeartbeat == "set_declared"
AfterQuery == IF heartbeat_on THEN "hb_pub" ELSE "set_declared"
\* A task that leaves the query responder out.
AfterPub_SkipQueryable == AfterQuery
AfterPub   == IF QueryableApplicable THEN "decl_query" ELSE AfterQuery

\* A task that stops declaring when the subscriber declaration fails.
AfterSub_AbortOnFailure == IF main_subscriber' = "valid" THEN "decl_pub" ELSE "idle"

\* A task that never records the publisher as declared.
AfterPubResult_NoFlag(ok) == AfterPub

\* After declare_publisher_helper: g_publisher_declared = true when it
\* returned >= 0, else straight on.
AfterPubResult(ok) == IF ok THEN "pub_flag" ELSE AfterPub

\* The statement after the subscriber declaration, whatever its result.
AfterSub == "decl_pub"

NoDecls == [d \in Decls |-> "none"]

\* The program exists only for a configuration the preprocessor accepts, and
\* runs until the device faults.
Running == ConfigValid(role, transport) /\ ~crashed

\* ------------------------------------------------------------ zenoh_client_task
\* Task entry: capture the network info once.
TaskEntry ==
    /\ Running
    /\ tpc = "entry"
    /\ \E ni \in NetInfos : net_info' = ni
    /\ sesson_opened' = FALSE
    /\ tpc' = "config"
    /\ UNCHANGED << cfgVars, auxVars, coreHandles, zenoh_task_handle, app_event_group, hbVars,
                    bits, config, res, pubVars, queryVars, ctlVars, crashed, runVars,
                    released >>

\* Top of the retry loop: a new configuration object for this attempt.
TaskBuildConfig ==
    /\ Running
    /\ tpc = "config"
    /\ ~sesson_opened
    /\ config' = BuildConfig(role, transport, net_info)
    /\ res' = "none"
    /\ tpc' = "open"
    /\ UNCHANGED << cfgVars, auxVars, coreHandles, zenoh_task_handle, app_event_group, hbVars,
                    bits, net_info, sesson_opened, pubVars, queryVars, ctlVars, crashed,
                    runVars, released >>

\* A loop that does not test the result of z_open.
AfterOpen_NoResultTest(r) == "connected"

\* A loop that treats an invalid locator as fatal and stops retrying.
AfterOpen_FatalLocator(r) ==
    IF r = Z_OK THEN "connected"
    ELSE IF r = "CONFIG_LOCATOR_INVALID" THEN "idle" ELSE "delay"

\* Where the loop goes on a z_open result.
AfterOpen(r) == IF r = Z_OK THEN "connected" ELSE "delay"

\* z_open(&session, z_move(config), NULL): the configuration is consumed
\* whatever the result.
TaskOpen ==
    /\ Running
    /\ tpc = "open"
    /\ \E r \in {Z_OK} \cup (IF failures < MaxFailures THEN OpenErrors ELSE {}) :
          /\ res' = r
          /\ session' = IF r = Z_OK THEN "valid" ELSE session
          /\ sesson_opened' = (r = Z_OK)
          /\ failures' = IF r = Z_OK THEN failures ELSE failures + 1
          /\ tpc' = AfterOpen(r)
    /\ attempts' = attempts + 1
    /\ last_open' = config
    /\ config' = NoConfig
    /\ UNCHANGED << cfgVars, auxVars, zenoh_task_handle, app_event_group, main_subscriber,
                    main_publisher, g_publisher_declared, queryable, hbVars, bits,
                    net_info, pubVars, queryVars, ctlVars, crashed, slept_ms,
                    rw_started, declared, released >>

\* A loop that declares the configuration outside its body and passes the
\* moved-from object to the next z_open.
AfterDelay_ReuseConfig == "open"

\* After the delay the loop body starts again at its first statement, the
\* declaration and z_config_default of a new configuration.
AfterDelay == "config"

\* vTaskDelay(15000 / portTICK_PERIOD_MS), then back to the loop condition.
TaskDelay ==
    /\ Running
    /\ tpc = "delay"
    /\ slept_ms' = slept_ms + RETRY_DELAY_MS
    /\ tpc' = AfterDelay
    /\ UNCHANGED << cfgVars, auxVars, coreHandles, zenoh_task_handle, app_event_group, hbVars,
                    bits, taskLocals, pubVars, queryVars, ctlVars, crashed, attempts,
                    failures, rw_started, declared, last_open, released >>

\* xEventGroupSetBits(app_event_group, ZENOH_CONNECTED_BIT)
TaskSetConnected ==
    /\ Running
    /\ tpc = "connected"
    /\ bits' = xEventGroupSetBits(app_event_group, ZENOH_CONNECTED_BIT)
    /\ set_calls' = [set_calls EXCEPT ![ZENOH_CONNECTED_BIT] = @ + 1]
    /\ tpc' = "rw_tasks"
    /\ UNCHANGED << cfgVars, data_handler, keyVars, c_arg, raceVars, coreHandles, zenoh_task_handle, app_event_group, hbVars,
                    taskLocals, pubVars, queryVars, ctlVars, crashed, runVars, released >>

\* z_info_zid, zp_start_read_task, zp_start_lease_task.  The retry loop is
\* behind: net_info is dead from here on, and the loop's history is closed.
TaskStartReadLease ==
    /\ Running
    /\ tpc = "rw_tasks"
    /\ rw_started' = TRUE
    /\ net_info' = NoNetInfo
    /\ attempts' = 0
    /\ failures' = 0
    /\ slept_ms' = 0
    /\ last_open' = NoConfig
    /\ tpc' = "decl_sub"
    /\ UNCHANGED << cfgVars, auxVars, coreHandles, zenoh_task_handle, app_event_group, hbVars,
                    bits, config, res, sesson_opened, pubVars, queryVars, ctlVars,
                    crashed, declared, released >>

\* z_declare_subscriber(..., &main_subscriber, KEYEXPR_SUB "/**", ...)
TaskDeclareSubscriber ==
    /\ Running
    /\ tpc = "decl_sub"
    /\ \E ok \in BOOLEAN :
          /\ main_subscriber' = IF ok THEN "valid" ELSE "null"
          /\ declared' = [declared EXCEPT !["sub"] = IF ok THEN "ok" ELSE "fail"]
    /\ sub_key' = KEYEXPR_SUB(role)
    /\ tpc' = AfterSub
    /\ UNCHANGED << cfgVars, data_handler, pub_key, c_arg, set_calls, raceVars, session, main_publisher, g_publisher_declared, queryable,
                    zenoh_task_handle, app_event_group, hbVars, bits, taskLocals,
                    pubVars, queryVars, ctlVars, crashed, attempts, failures, slept_ms,
                    rw_started, last_open, released >>

\* declare_publisher_helper(z_loan(session), &main_publisher, KEYEXPR_PUB "/**")
TaskDeclarePublisher ==
    /\ Running
    /\ tpc = "decl_pub"
    /\ \E ok \in BOOLEAN :
          /\ main_publisher' = IF ok THEN "valid" ELSE "null"
          /\ declared' = [declared EXCEPT !["pub"] = IF ok THEN "ok" ELSE "fail"]
          /\ tpc' = AfterPubResult(ok)
    /\ pub_key' = KEYEXPR_PUB(role)
    /\ UNCHANGED << cfgVars, data_handler, sub_key, c_arg, set_calls, raceVars, session, main_subscriber, g_publisher_declared, queryable,
                    zenoh_task_handle, app_event_group, hbVars, bits, taskLocals,
                    pubVars, queryVars, ctlVars, crashed, attempts, failures, slept_ms,
                    rw_started, last_open, released >>

\* g_publisher_declared = true (the helper returned >= 0)
TaskSetPublisherDeclared ==
    /\ Running
    /\ tpc = "pub_flag"
    /\ g_publisher_declared' = TRUE
    /\ tpc' = AfterPub
    /\ UNCHANGED << cfgVars, auxVars, session, main_subscriber, main_publisher, queryable,
                    zenoh_task_handle, app_event_group, hbVars, bits, taskLocals,
                    pubVars, queryVars, ctlVars, crashed, runVars, released >>

\* z_declare_queryable(..., &queryable, KEYEXPR_QUERYABLE "/**", ...)
TaskDeclareQueryable ==
    /\ Running
    /\ tpc = "decl_query"
    /\ \E ok \in BOOLEAN :
          /\ queryable' = IF ok THEN "valid" ELSE "null"
          /\ declared' = [declared EXCEPT !["query"] = IF ok THEN "ok" ELSE "fail"]
    /\ tpc' = AfterQuery
    /\ UNCHANGED << cfgVars, auxVars, session, main_subscriber, main_publisher,
                    g_publisher_declared, zenoh_task_handle, app_event_group, hbVars,
                    bits, taskLocals, pubVars, queryVars, ctlVars, crashed, attempts,
                    failures, slept_ms, rw_started, last_open, released >>

\* xEventGroupSetBits(app_event_group, ZENOH_DECLARED_BIT), then idle forever.
TaskSetDeclared ==
    /\ Running
    /\ tpc = "set_declared"
    /\ bits' = xEventGroupSetBits(app_event_group, ZENOH_DECLARED_BIT)
    /\ set_calls' = [set_calls EXCEPT ![ZENOH_DECLARED_BIT] = @ + 1]
    /\ tpc' = "idle"
    /\ UNCHANGED << cfgVars, data_handler, keyVars, c_arg, raceVars, coreHandles, zenoh_task_handle, app_event_group, hbVars,
                    taskLocals, pubVars, queryVars, ctlVars, crashed, runVars, released >>


\* ------------------------------------------------------------ zenoh_heartbeat_init
\* z_declare_publisher(session, &heartbeat_publisher, HEARTBEAT_CHANNEL)
HbDeclarePublisher ==
    /\ Running
    /\ tpc = "hb_pub"
    /\ \E ok \in BOOLEAN :
          /\ heartbeat_publisher' = IF ok THEN "valid" ELSE "null"
    /\ tpc' = "hb_sub"
    /\ UNCHANGED << cfgVars, auxVars, coreHandles, zenoh_task_handle, app_event_group,
                    subscriber_heartbeat, heartbeat_task_handle, hpc, hb_group, hb_sent,
                    hb_orphans, bits, taskLocals, pubVars, queryVars, ctlVars, crashed,
                    runVars, released >>

\* z_declare_subscriber(session, &subscriber_heartbeat, HEARTBEAT_CHANNEL, ...)
HbDeclareSubscriber ==
    /\ Running
    /\ tpc = "hb_sub"
    /\ \E ok \in BOOLEAN :
          /\ subscriber_heartbeat' = IF ok THEN "valid" ELSE "null"
    /\ tpc' = "hb_task"
    /\ UNCHANGED << cfgVars, auxVars, coreHandles, zenoh_task_handle, app_event_group,
                    heartbeat_publisher, heartbeat_task_handle, hpc, hb_group, hb_sent,
                    hb_orphans, bits, taskLocals, pubVars, queryVars, ctlVars, crashed,
                    runVars, released >>

\* xTaskCreate(heartbeat_task, ..., event_group, 5, &heartbeat_task_handle)
HbCreateTask ==
    /\ Running
    /\ tpc = "hb_task"
    /\ heartbeat_task_handle' = 1
    /\ hpc' = "wait"
    /\ hb_group' = app_event_group
    /\ hb_orphans' = IF hpc = "none" THEN hb_orphans ELSE hb_orphans + 1
    /\ tpc' = "set_declared"
    /\ UNCHANGED << cfgVars, auxVars, coreHandles, zenoh_task_handle, app_event_group,
                    heartbeat_publisher, subscriber_heartbeat, hb_sent,
                    bits, taskLocals, pubVars, queryVars, ctlVars, crashed, runVars,
                    released >>

\* ------------------------------------------------------------ heartbeat_task
\* A heartbeat task that starts its loop without waiting.
xEventGroupWaitBits_NoWait(g, bit) == TRUE

\* xEventGroupWaitBits(g, bit, pdFALSE, pdFALSE, portMAX_DELAY) returns when
\* the bit is set in the group.
xEventGroupWaitBits(g, bit) == bit \in bits[g]

\* xEventGroupWaitBits(event_group, ZENOH_DECLARED_BIT, ..., portMAX_DELAY)
HeartbeatWait ==
    /\ Running
    /\ hpc = "wait"
    /\ xEventGroupWaitBits(hb_group, ZENOH_DECLARED_BIT)
    /\ hpc' = "loop"
    /\ UNCHANGED << cfgVars, auxVars, coreHandles, zenoh_task_handle, app_event_group,
                    heartbeat_publisher, subscriber_heartbeat, heartbeat_task_handle,
                    hb_group, hb_sent, hb_orphans, bits, tpc, taskLocals, pubVars,
                    queryVars, ctlVars, crashed, runVars, released >>

\* One pass of the loop: vTaskDelay, then z_publisher_put(heartbeat_publisher).
\* A put through a null publisher handle is undefined: the device faults, or
\* the call returns an error without sending.
HeartbeatPublish ==
    /\ Running
    /\ hpc = "loop"
    /\ hb_sent < MaxHb
    /\ hb_sent' = hb_sent + 1
    /\ \/ /\ heartbeat_publisher = "valid"
          /\ UNCHANGED crashed
       \/ /\ heartbeat_publisher = "null"
          /\ crashed' \in BOOLEAN
    /\ UNCHANGED << cfgVars, auxVars, coreHandles, zenoh_task_handle, app_event_group,
                    heartbeat_publisher, subscriber_heartbeat, heartbeat_task_handle,
                    hpc, hb_group, hb_orphans, bits, tpc, taskLocals, pubVars,
                    queryVars, ctlVars, runVars, released >>


\* ------------------------------------------------------------ start()
\* The event groups a start() call can be given.  The groups are
\* interchangeable until one has been used, so the first one used is group 1.
StartGroups == IF app_event_group = NoGroup THEN {1} ELSE EventGroups

\* The arguments of a start() call: an application component hands in its own
\* event group and its own data handler, so handler g comes with group g.
StartArgs == {[event_group |-> g, data_handler |-> g] : g \in StartGroups}
NoArgs    == [event_group |-> NoGroup, data_handler |-> NULL]

\* if (zenoh_task_handle) { return; }
StartGuard_Never == FALSE
StartGuard == zenoh_task_handle # NULL

\* zenoh_client_init_and_start(event_group, data_handler): the guard on the task
\* handle, then app_event_group = event_group.
StartCheck ==
    /\ Running
    /\ cpc = "idle"
    /\ calls < MaxCalls
    /\ calls' = calls + 1
    /\ starts' = starts + 1
    /\ stops_in_row' = 0
    /\ released' = [h \in Handles |-> 0]
    /\ \E arg \in StartArgs :
          IF StartGuard
          THEN /\ cpc' = "idle"
               /\ UNCHANGED << app_event_group, c_arg >>
          ELSE /\ app_event_group' = arg.event_group
               /\ c_arg' = arg
               /\ cpc' = "start_create"
    /\ UNCHANGED << cfgVars, data_handler, keyVars, set_calls, raceVars, coreHandles,
                    zenoh_task_handle, hbVars, bits, tpc,
                    taskLocals, pubVars, queryVars, stop_calls, crashed, runVars >>

\* xTaskCreate(zenoh_client_task, ..., &zenoh_task_handle)
StartCreate ==
    /\ Running
    /\ cpc = "start_create"
    /\ zenoh_task_handle' = 1
    /\ tpc' = "entry"
    /\ net_info' = NoNetInfo
    /\ config' = NoConfig
    /\ res' = "none"
    /\ sesson_opened' = FALSE
    /\ attempts' = 0
    /\ failures' = 0
    /\ slept_ms' = 0
    /\ rw_started' = FALSE
    /\ declared' = NoDecls
    /\ pub_key' = NoKey
    /\ sub_key' = NoKey
    /\ set_calls' = NoSetCalls
    /\ data_handler' = c_arg.data_handler
    /\ c_arg' = NoArgs
    /\ task_orphans' = IF tpc # "none" THEN task_orphans + 1 ELSE task_orphans
    /\ cpc' = "idle"
    /\ UNCHANGED << cfgVars, cpc2, coreHandles, app_event_group, hbVars, bits, pubVars,
                    queryVars, calls, stops_in_row, stop_calls, starts, crashed,
                    last_open, released >>

\* zenoh_client_init_and_start called from a second application task, with
\* its own event group and handler: the same guard and assignment ...
SecondArgs == [event_group |-> 2, data_handler |-> 2]

Start2Check ==
    /\ Running
    /\ cpc2 = "idle"
    /\ calls < MaxCalls
    /\ calls' = calls + 1
    /\ starts' = starts + 1
    /\ stops_in_row' = 0
    /\ released' = [h \in Handles |-> 0]
    /\ IF StartGuard
       THEN /\ cpc2' = "idle"
            /\ UNCHANGED app_event_group
       ELSE /\ app_event_group' = SecondArgs.event_group
            /\ cpc2' = "start_create"
    /\ UNCHANGED << cfgVars, data_handler, keyVars, c_arg, set_calls, task_orphans, coreHandles,
                    zenoh_task_handle, hbVars, bits, tpc, cpc,
                    taskLocals, pubVars, queryVars, stop_calls, crashed, runVars >>

\* ... and the same xTaskCreate.  A task created while zenoh_task_handle
\* names a live task takes the handle over; the earlier task stays alive with
\* no handle naming it.
Start2Create ==
    /\ Running
    /\ cpc2 = "start_create"
    /\ zenoh_task_handle' = 1
    /\ tpc' = "entry"
    /\ net_info' = NoNetInfo
    /\ config' = NoConfig
    /\ res' = "none"
    /\ sesson_opened' = FALSE
    /\ attempts' = 0
    /\ failures' = 0
    /\ slept_ms' = 0
    /\ rw_started' = FALSE
    /\ declared' = NoDecls
    /\ pub_key' = NoKey
    /\ sub_key' = NoKey
    /\ set_calls' = NoSetCalls
    /\ data_handler' = SecondArgs.data_handler
    /\ task_orphans' = IF tpc # "none" THEN task_orphans + 1 ELSE task_orphans
    /\ cpc2' = "idle"
    /\ UNCHANGED << cfgVars, c_arg, cpc, coreHandles, app_event_group, hbVars, bits,
                    pubVars, queryVars, calls, stops_in_row, stop_calls, starts,
                    crashed, last_open, released >>

\* ------------------------------------------------------------ stop()
\* The release a z_drop or vTaskDelete performs, counted per handle since the
\* last call of start().
Release(h) == [released EXCEPT ![h] = @ + 1]

\* A z_drop that releases whatever the handle holds.
z_drop_releases_Unchecked(h) == TRUE

\* z_drop(z_move(h)) releases the resource of a handle that holds one, and
\* does nothing on a handle that is null: one never assigned, one a failed
\* z_open or z_declare_* left, or one already dropped.
z_drop_releases(h) == h = "valid"

\* First statement after the log line of zenoh_client_stop.
StopFirst == IF heartbeat_on THEN "stop_hb_task" ELSE "stop_task"
\* The drop that follows the deletion of the task; the one after the publisher's.
StopAfterTask == "stop_pub"
StopAfterPub  == IF QUERYABLE_ON(role) THEN "stop_query" ELSE "stop_sub"

\* Control is at statement pc of stop(): either a call in progress has reached
\* it, or the control thread calls stop() now and pc is its first statement.
StopAt(pc) ==
    \/ /\ cpc = pc
       /\ UNCHANGED << calls, stop_calls >>
    \/ /\ cpc = "idle"
       /\ StopFirst = pc
       /\ calls < MaxCalls
       /\ calls' = calls + 1
       /\ stop_calls' = stop_calls + 1

\* zenoh_heartbeat_stop: delete the heartbeat task if its handle is set.
StopHeartbeatTask ==
    /\ Running
    /\ StopAt("stop_hb_task")
    /\ IF heartbeat_task_handle # NULL
       THEN /\ heartbeat_task_handle' = NULL
            /\ hpc' = "none"
            /\ released' = Release("hb_task")
       ELSE UNCHANGED << heartbeat_task_handle, hpc, released >>
    /\ cpc' = "stop_hb_drop"
    /\ UNCHANGED << cfgVars, auxVars, coreHandles, zenoh_task_handle, app_event_group,
                    heartbeat_publisher, subscriber_heartbeat, hb_group, hb_sent,
                    hb_orphans, bits, tpc, taskLocals, pubVars, queryVars,
                    stops_in_row, starts, crashed, runVars >>

\* zenoh_heartbeat_stop: z_drop(heartbeat_publisher); z_drop(subscriber_heartbeat)
StopHeartbeatDrop ==
    /\ Running
    /\ cpc = "stop_hb_drop"
    /\ heartbeat_publisher' = "null"
    /\ subscriber_heartbeat' = "null"
    /\ released' = [released EXCEPT
                      !["hb_pub"] = IF z_drop_releases(heartbeat_publisher) THEN @ + 1 ELSE @,
                      !["hb_sub"] = IF z_drop_releases(subscriber_heartbeat) THEN @ + 1 ELSE @]
    /\ cpc' = "stop_task"
    /\ UNCHANGED << cfgVars, auxVars, coreHandles, zenoh_task_handle, app_event_group,
                    heartbeat_task_handle, hpc, hb_group, hb_sent, hb_orphans, bits,
                    tpc, taskLocals, pubVars, queryVars, calls, stops_in_row,
                    stop_calls, starts, crashed, runVars >>

\* A stop() that leaves the handle of the deleted task in place.
TaskHandleAfterDelete_Stale == zenoh_task_handle

\* zenoh_task_handle = NULL, after the vTaskDelete.
TaskHandleAfterDelete == NULL

\* A stop() whose vTaskDelete ends the task only where it blocks, in its
\* retry delay.
TaskPcAfterDelete_OnlyWhenBlocked == IF tpc = "delay" THEN "none" ELSE tpc
\* A stop() whose vTaskDelete leaves the task running.
TaskPcAfterDelete_StillRunning == tpc

\* vTaskDelete(zenoh_task_handle): the task is removed wherever it was.
TaskPcAfterDelete == "none"

\* if (zenoh_task_handle != NULL) { vTaskDelete(...); zenoh_task_handle = NULL; }
StopDeleteTask ==
    /\ Running
    /\ StopAt("stop_task")
    /\ IF zenoh_task_handle # NULL
       THEN /\ zenoh_task_handle' = TaskHandleAfterDelete
            /\ tpc' = TaskPcAfterDelete
            /\ net_info' = NoNetInfo
            /\ config' = NoConfig
            /\ res' = "none"
            /\ sesson_opened' = FALSE
            /\ data_handler' = NULL
            /\ released' = Release("task")
       ELSE UNCHANGED << zenoh_task_handle, tpc, taskLocals, released, data_handler >>
    /\ cpc' = StopAfterTask
    /\ UNCHANGED << cfgVars, keyVars, c_arg, set_calls, raceVars, coreHandles, app_event_group, hbVars, bits,
                    pubVars, queryVars, stops_in_row, starts, crashed, runVars >>

\* if (g_publisher_declared) { z_drop(z_move(main_publisher)); }
StopDropPublisher ==
    /\ Running
    /\ cpc = "stop_pub"
    /\ IF g_publisher_declared
       THEN /\ main_publisher' = "null"
            /\ released' = IF z_drop_releases(main_publisher) THEN Release("pub") ELSE released
       ELSE UNCHANGED << main_publisher, released >>
    /\ cpc' = StopAfterPub
    /\ UNCHANGED << cfgVars, auxVars, session, main_subscriber, g_publisher_declared, queryable,
                    zenoh_task_handle, app_event_group, hbVars, bits, tpc, taskLocals,
                    pubVars, queryVars, calls, stops_in_row, stop_calls, starts,
                    crashed, runVars >>

\* z_drop(z_move(queryable)), compiled when QUERYABLE_ON
StopDropQueryable ==
    /\ Running
    /\ cpc = "stop_query"
    /\ queryable' = "null"
    /\ released' = IF z_drop_releases(queryable) THEN Release("query") ELSE released
    /\ cpc' = "stop_sub"
    /\ UNCHANGED << cfgVars, auxVars, session, main_subscriber, main_publisher,
                    g_publisher_declared, zenoh_task_handle, app_event_group, hbVars,
                    bits, tpc, taskLocals, pubVars, queryVars, calls, stops_in_row,
                    stop_calls, starts, crashed, runVars >>

\* z_drop(z_move(main_subscriber))
StopDropSubscriber ==
    /\ Running
    /\ cpc = "stop_sub"
    /\ main_subscriber' = "null"
    /\ released' = IF z_drop_releases(main_subscriber) THEN Release("sub") ELSE released
    /\ cpc' = "stop_session"
    /\ UNCHANGED << cfgVars, auxVars, session, main_publisher, g_publisher_declared, queryable,
                    zenoh_task_handle, app_event_group, hbVars, bits, tpc, taskLocals,
                    pubVars, queryVars, calls, stops_in_row, stop_calls, starts,
                    crashed, runVars >>

\* z_drop(z_move(session)); stop() returns.
StopDropSession ==
    /\ Running
    /\ cpc = "stop_session"
    /\ session' = "null"
    /\ released' = IF z_drop_releases(session) THEN Release("session") ELSE released
    /\ stops_in_row' = stops_in_row + 1
    /\ cpc' = "idle"
    /\ UNCHANGED << cfgVars, auxVars, main_subscriber, main_publisher, g_publisher_declared,
                    queryable, zenoh_task_handle, app_event_group, hbVars, bits, tpc,
                    taskLocals, pubVars, queryVars, calls, stop_calls, starts,
                    crashed, runVars >>


\* ------------------------------------------------------------ publish gateway
\* The Declared flag as a caller sees it: the bit of the event group last
\* handed to start().
DeclaredFlag  == app_event_group # NoGroup /\ ZENOH_DECLARED_BIT \in bits[app_event_group]
ConnectedFlag == app_event_group # NoGroup /\ ZENOH_CONNECTED_BIT \in bits[app_event_group]

NoCall == [op |-> "none", bit |-> FALSE, flag |-> FALSE, result |-> "none",
           keyexpr |-> NoKey, sent_on |-> NoKey, decl |-> "none"]

\* The key expressions a caller passes to publish and publish_owned: the
\* application's two topics, one of which is the role's outbound topic.
CallerKeys == {KEYEXPR_PUB(r) : r \in Roles}

\* A gateway that puts on the key expression of the declared publisher.
PutKey_Declared(keyexpr) == KEYEXPR_PUB(role)

\* z_view_keyexpr_from_str_unchecked(&ke, keyexpr); z_put(z_loan(session),
\* z_loan(ke), ...): the key expression the message is put on.
PutKey(keyexpr) == keyexpr

\* z_put(z_loan(session), ...): what the transport can answer on an open
\* session.  On a session that is not open the loan is of a null handle: the
\* device faults, or the call returns an error.
PutOutcomes == IF session = "valid" THEN {"sent", "send_failed"}
               ELSE {"fault", "send_failed"}

\* A gateway that does not test whether the publisher is declared.
PublishGuard_Always == TRUE

\* if (g_publisher_declared)
PublishGuard == g_publisher_declared

\* A gateway whose payload wraps the caller's text itself, to be released
\* when the payload is dropped.
TextPayload_Alias == "alias"

\* z_bytes_copy_from_str(&payload, payload_str): the payload is a copy of the
\* caller's text.
TextPayload == "copy"

\* zenoh_publish(keyexpr, payload_str): the test of g_publisher_declared.
\* payload_str is the caller's buffer; buf_frees lists the frees of the
\* buffer of the call in progress.
PublishCheck ==
    /\ Running
    /\ ppc = "idle"
    /\ pubs < MaxPub
    /\ pubs' = pubs + 1
    /\ \E keyexpr \in CallerKeys :
          IF PublishGuard
          THEN /\ ppc' = "pub_put"
               /\ pub_log' = [op |-> "publish", bit |-> DeclaredFlag,
                              flag |-> g_publisher_declared, result |-> "pending",
                              keyexpr |-> keyexpr, sent_on |-> NoKey,
                              decl |-> declared["pub"]]
          ELSE /\ ppc' = "idle"
               /\ pub_log' = [op |-> "publish", bit |-> DeclaredFlag, flag |-> FALSE,
                              result |-> "not_declared",
                              keyexpr |-> keyexpr, sent_on |-> NoKey,
                              decl |-> declared["pub"]]
    /\ buf_frees' = << >>
    /\ payload_owner' = "caller"
    /\ UNCHANGED << cfgVars, auxVars, coreHandles, zenoh_task_handle, app_event_group, hbVars,
                    bits, tpc, taskLocals, queryVars, ctlVars,
                    crashed, runVars, released >>

\* A gateway that calls z_put again when it failed.
AfterPut_RetryOnFailure(pc, out) == IF out = "send_failed" THEN pc ELSE "idle"

\* After z_put, whatever it returned, the call returns to its caller.
AfterPut(pc, out) == "idle"

\* zenoh_publish: z_bytes_copy_from_str, z_put; the result is not looked at.
\* z_put consumes the payload and drops it; what that releases is the
\* payload's own storage.
PublishPut ==
    /\ Running
    /\ ppc = "pub_put"
    /\ \E out \in PutOutcomes :
          /\ pub_log' = [pub_log EXCEPT
                            !.result = out,
                            !.sent_on = IF out = "sent" THEN PutKey(pub_log.keyexpr)
                                        ELSE NoKey]
          /\ crashed' = (out = "fault")
          /\ IF out # "fault" /\ TextPayload = "alias"
             THEN /\ buf_frees' = Append(buf_frees, "free")
                  /\ payload_owner' = "freed"
             ELSE UNCHANGED << buf_frees, payload_owner >>
          /\ ppc' = AfterPut(ppc, out)
    /\ UNCHANGED << cfgVars, auxVars, coreHandles, zenoh_task_handle, app_event_group, hbVars,
                    bits, tpc, taskLocals, pubs, queryVars,
                    ctlVars, runVars, released >>

\* z_get(z_loan(session), ...): the query is sent or the call fails; on a
\* session that is not open the loan is of a null handle, as for z_put.
GetOutcomes == IF session = "valid" THEN {"get_sent", "get_failed"}
               ELSE {"fault", "get_failed"}

\* zenoh_get_data(keyexpr, handler, arg), in the build that has it: z_get on
\* the session with the caller's key expression; a failure is logged.
GetData ==
    /\ Running
    /\ GetAvailable
    /\ ppc = "idle"
    /\ pubs < MaxPub
    /\ pubs' = pubs + 1
    /\ \E out \in GetOutcomes :
          /\ pub_log' = [op |-> "get", bit |-> DeclaredFlag,
                         flag |-> g_publisher_declared, result |-> out,
                         keyexpr |-> KEYEXPR_DATA_QUERY, sent_on |-> NoKey,
                         decl |-> declared["pub"]]
          /\ crashed' = (out = "fault")
    /\ UNCHANGED << cfgVars, auxVars, coreHandles, zenoh_task_handle, app_event_group, hbVars,
                    bits, tpc, taskLocals, ppc, buf_frees, payload_owner, queryVars,
                    ctlVars, runVars, released >>

\* payload_deleter(data, context): free() for a non-null context, else
\* heap_caps_free().
payload_deleter(context) == IF context # NULL THEN "free" ELSE "heap_caps_free"

\* zenoh_publish_binary(keyexpr, payload, len, options): the test of
\* g_publisher_declared; free((void *)payload) when it is unset.
PublishBinaryCheck ==
    /\ Running
    /\ ppc = "idle"
    /\ pubs < MaxPub
    /\ pubs' = pubs + 1
    /\ \E keyexpr \in CallerKeys :
          IF ~g_publisher_declared
          THEN /\ buf_frees' = << "free" >>
               /\ payload_owner' = "freed"
               /\ ppc' = "idle"
               /\ pub_log' = [op |-> "publish_binary", bit |-> DeclaredFlag,
                              flag |-> FALSE, result |-> "not_declared",
                              keyexpr |-> keyexpr, sent_on |-> NoKey,
                              decl |-> declared["pub"]]
          ELSE /\ buf_frees' = << >>
               /\ payload_owner' = "gateway"
               /\ ppc' = "bin_wrap"
               /\ pub_log' = [op |-> "publish_binary", bit |-> DeclaredFlag,
                              flag |-> TRUE, result |-> "pending",
                              keyexpr |-> keyexpr, sent_on |-> NoKey,
                              decl |-> declared["pub"]]
    /\ UNCHANGED << cfgVars, auxVars, coreHandles, zenoh_task_handle, app_event_group, hbVars,
                    bits, tpc, taskLocals, queryVars, ctlVars, crashed, runVars,
                    released >>

\* What z_bytes_from_buf can have done when it returns: wrapped the buffer
\* (Z_OK), or failed.  The call is handed the buffer together with its
\* deleter, and the source does not settle whether a failing call has already
\* released the buffer through that deleter (the library releases what it was
\* handed when the wrapping allocation fails) or has left it untouched.
WrapOutcomes == {"ok", "failed_released", "failed_untouched"}

\* z_bytes_from_buf(&z_payload, payload, len, payload_deleter, (void*)1); on a
\* result other than Z_OK the gateway calls free((void *)payload) and returns.
PublishBinaryWrap ==
    /\ Running
    /\ ppc = "bin_wrap"
    /\ \E out \in WrapOutcomes :
          IF out = "ok"
          THEN /\ payload_owner' = "z_payload"
               /\ ppc' = "bin_put"
               /\ UNCHANGED << buf_frees, pub_log >>
          ELSE /\ buf_frees' = IF out = "failed_released"
                               THEN Append(Append(buf_frees, payload_deleter(1)), "free")
                               ELSE Append(buf_frees, "free")
               /\ payload_owner' = "freed"
               /\ ppc' = "idle"
               /\ pub_log' = [pub_log EXCEPT !.result = "wrap_failed"]
    /\ UNCHANGED << cfgVars, auxVars, coreHandles, zenoh_task_handle, app_event_group, hbVars,
                    bits, tpc, taskLocals, pubs, queryVars, ctlVars, crashed, runVars,
                    released >>

\* z_put(z_loan(session), z_loan(ke), z_move(z_payload), NULL): the payload is
\* consumed and dropped by the call, which runs its deleter on the buffer.
PublishBinaryPut ==
    /\ Running
    /\ ppc = "bin_put"
    /\ \E out \in PutOutcomes :
          /\ pub_log' = [pub_log EXCEPT
                            !.result = out,
                            !.sent_on = IF out = "sent" THEN PutKey(pub_log.keyexpr)
                                        ELSE NoKey]
          /\ crashed' = (out = "fault")
          /\ IF out = "fault"
             THEN UNCHANGED << buf_frees, payload_owner >>
             ELSE /\ buf_frees' = Append(buf_frees, payload_deleter(1))
                  /\ payload_owner' = "freed"
          /\ ppc' = AfterPut(ppc, out)
    /\ UNCHANGED << cfgVars, auxVars, coreHandles, zenoh_task_handle, app_event_group, hbVars,
                    bits, tpc, taskLocals, pubs, queryVars, ctlVars, runVars, released >>


\* ------------------------------------------------------------ query responder
\* The application's provider callbacks and their contexts, as addresses.
Providers == {1, 2}

\* The (cb, ctx) pairs the application registers; (NULL, NULL) unregisters.
Registrations == {<< NULL, NULL >>} \cup {<< p, p >> : p \in Providers}

\* What a provider returns: 0 with an output payload, or a failure code.
ProviderResults == {0, -1}

\* A registration that keeps a callback already registered.
RegisteredCallback_FirstWins(cb) == IF g_query_provider # NULL THEN g_query_provider ELSE cb

\* g_query_provider = cb
RegisteredCallback(cb) == cb

\* zenoh_register_query_provider(cb, ctx), first statement:
\* g_query_provider = cb.  r_arg holds the arguments of the call in progress
\* and, once it has returned, those of the most recent call.
RegisterWriteCallback ==
    /\ Running
    /\ rpc = "idle"
    /\ \E reg \in Registrations :
          /\ r_arg' = reg
          /\ g_query_provider' = RegisteredCallback(reg[1])
    /\ rpc' = "ctx"
    /\ UNCHANGED << cfgVars, auxVars, coreHandles, zenoh_task_handle, app_event_group, hbVars,
                    bits, tpc, taskLocals, pubVars, g_query_provider_ctx, qpc, q_cb,
                    q_ctx, queries, replies, ctlVars, crashed, runVars, released >>

\* zenoh_register_query_provider, second statement: g_query_provider_ctx = ctx.
RegisterWriteContext ==
    /\ Running
    /\ rpc = "ctx"
    /\ g_query_provider_ctx' = r_arg[2]
    /\ rpc' = "idle"
    /\ UNCHANGED << cfgVars, auxVars, coreHandles, zenoh_task_handle, app_event_group, hbVars,
                    bits, tpc, taskLocals, pubVars, g_query_provider, r_arg, qpc, q_cb,
                    q_ctx, queries, replies, ctlVars, crashed, runVars, released >>

\* The reply to a query that found no provider: z_query_reply_err with an
\* empty payload.
NoProviderReply == [kind |-> "err", called |-> FALSE]

\* The key expression of the i-th inbound query, z_query_keyexpr(query): a key
\* under the queryable's KEYEXPR_QUERYABLE "/**".
QueryKey(i) == << KEYEXPR_DATA_QUERY, i >>

\* What provider cb, called with ctx, stores in *out when it returns 0.
ProviderPayload(cb, ctx) == << "payload", cb, ctx >>

\* The payload of a reply: the provider's for z_query_reply, the empty
\* payload of z_bytes_empty for z_query_reply_err.
ReplyPayload(kind, out) == IF kind = "data" THEN out ELSE << >>

\* A handler that answers every query with an error reply.
ReplyKind_AlwaysErr(rc) == "err"

\* A handler that replies with the payload whatever the provider returned.
ReplyKind_AlwaysData(rc) == "data"

\* if (g_query_provider(ctx, &payload) == 0) z_query_reply(...) else
\* z_query_reply_err(...).
ReplyKind(rc) == IF rc = 0 THEN "data" ELSE "err"

\* client_query_handler, called by the session's read task for a query on the
\* declared queryable: the test g_query_provider != NULL, and the error reply
\* of its else branch.
QueryCheck ==
    /\ Running
    /\ qpc = "idle"
    /\ session = "valid" /\ queryable = "valid"
    /\ queries < MaxQueries
    /\ queries' = queries + 1
    /\ q_cb' = g_query_provider
    /\ IF g_query_provider # NULL
       THEN /\ qpc' = "call"
            /\ UNCHANGED replies
       ELSE /\ qpc' = "idle"
            /\ replies' = Append(replies, NoProviderReply)
    /\ UNCHANGED << cfgVars, auxVars, coreHandles, zenoh_task_handle, app_event_group, hbVars,
                    bits, tpc, taskLocals, pubVars, g_query_provider,
                    g_query_provider_ctx, q_ctx, rpc, r_arg, ctlVars, crashed,
                    runVars, released >>

\* g_query_provider(g_query_provider_ctx, &payload): the globals are plain
\* statics written by another thread, so the callee is the value the test
\* read or the value in memory now, with the context in memory now.  A call
\* through a null pointer faults.
QueryCall ==
    /\ Running
    /\ qpc = "call"
    /\ \E cb \in {q_cb, g_query_provider} :
          /\ q_cb' = cb
          /\ q_ctx' = g_query_provider_ctx
          /\ IF cb = NULL
             THEN crashed' = TRUE /\ qpc' = "faulted"
             ELSE crashed' = crashed /\ qpc' = "provider"
    /\ UNCHANGED << cfgVars, auxVars, coreHandles, zenoh_task_handle, app_event_group, hbVars,
                    bits, tpc, taskLocals, pubVars, g_query_provider,
                    g_query_provider_ctx, queries, replies, rpc, r_arg, ctlVars,
                    runVars, released >>

\* The provider returns, and the handler replies: z_query_reply with the
\* payload for 0, z_query_reply_err with an empty payload otherwise.
QueryReply ==
    /\ Running
    /\ qpc = "provider"
    /\ \E rc \in ProviderResults :
          replies' = Append(replies,
                            [kind |-> ReplyKind(rc), called |-> TRUE,
                             cb |-> q_cb, ctx |-> q_ctx, rc |-> rc,
                             query |-> queries,
                             key |-> IF ReplyKind(rc) = "data" THEN QueryKey(queries)
                                     ELSE << >>,
                             payload |-> ReplyPayload(ReplyKind(rc),
                                                      ProviderPayload(q_cb, q_ctx))])
    /\ qpc' = "idle"
    /\ UNCHANGED << cfgVars, auxVars, coreHandles, zenoh_task_handle, app_event_group, hbVars,
                    bits, tpc, taskLocals, pubVars, g_query_provider,
                    g_query_provider_ctx, q_cb, q_ctx, queries, rpc, r_arg, ctlVars,
                    crashed, runVars, released >>

\* ------------------------------------------------------------ specification
\* The state once the firmware image is loaded: the statics zero-initialised,
\* no task created, nothing registered.  The build-time configuration is any
\* (role, transport, heartbeat) choice; a choice the #error directives reject
\* yields no program, hence no step.
InitStatics ==
    /\ session = "null" /\ zenoh_task_handle = NULL /\ app_event_group = NoGroup
    /\ main_subscriber = "null" /\ main_publisher = "null"
    /\ g_publisher_declared = FALSE /\ queryable = "null"
    /\ g_query_provider = NULL /\ g_query_provider_ctx = NULL
    /\ heartbeat_publisher = "null" /\ subscriber_heartbeat = "null"
    /\ heartbeat_task_handle = NULL
    /\ bits = [g \in EventGroups |-> {}]
    /\ tpc = "none" /\ net_info = NoNetInfo /\ config = NoConfig /\ res = "none"
    /\ sesson_opened = FALSE
    /\ hpc = "none" /\ hb_group = NoGroup /\ hb_sent = 0 /\ hb_orphans = 0
    /\ cpc = "idle" /\ calls = 0
    /\ ppc = "idle" /\ pubs = 0 /\ buf_frees = << >> /\ payload_owner = "none"
    /\ qpc = "idle" /\ q_cb = NULL /\ q_ctx = NULL /\ queries = 0 /\ replies = << >>
    /\ rpc = "idle" /\ r_arg = << NULL, NULL >>
    /\ crashed = FALSE
    /\ attempts = 0 /\ failures = 0 /\ slept_ms = 0 /\ rw_started = FALSE
    /\ declared = NoDecls
    /\ released = [h \in Handles |-> 0]
    /\ stops_in_row = 0 /\ stop_calls = 0 /\ starts = 0
    /\ pub_log = NoCall /\ last_open = NoConfig
    /\ data_handler = NULL /\ pub_key = NoKey /\ sub_key = NoKey
    /\ c_arg = NoArgs /\ cpc2 = "idle" /\ task_orphans = 0
    /\ set_calls = NoSetCalls

Init ==
    /\ role \in Roles
    /\ transport \in Transports
    /\ heartbeat_on \in BOOLEAN
    /\ InitStatics

CoreTaskStep ==
    \/ TaskEntry \/ TaskBuildConfig \/ TaskOpen \/ TaskDelay
    \/ TaskSetConnected \/ TaskStartReadLease
    \/ TaskDeclareSubscriber \/ TaskDeclarePublisher \/ TaskSetPublisherDeclared
    \/ TaskDeclareQueryable
    \/ TaskSetDeclared

HeartbeatInitStep == HbDeclarePublisher \/ HbDeclareSubscriber \/ HbCreateTask

TaskStep == CoreTaskStep \/ HeartbeatInitStep

HeartbeatStep == HeartbeatWait \/ HeartbeatPublish

StartStep == StartCheck \/ StartCreate

CoreStopStep ==
    \/ StopDeleteTask
    \/ StopDropPublisher \/ StopDropQueryable \/ StopDropSubscriber \/ StopDropSession

StopStep == StopHeartbeatTask \/ StopHeartbeatDrop \/ CoreStopStep

PublishStep ==
    \/ PublishCheck \/ PublishPut
    \/ PublishBinaryCheck \/ PublishBinaryWrap \/ PublishBinaryPut

\* The session lifecycle: the background task, the heartbeat collaborator and
\* a control thread calling start() and stop().
Next == TaskStep \/ HeartbeatStep \/ StartStep \/ StopStep

Spec == Init /\ [][Next]_vars

\* The publish gateway: a build without heartbeat, the lifecycle above, and a
\* second application thread calling publish and publish_owned.
PubInit ==
    /\ role \in Roles
    /\ transport \in Transports
    /\ heartbeat_on = FALSE
    /\ InitStatics

PubNext == CoreTaskStep \/ StartStep \/ CoreStopStep \/ PublishStep \/ GetData

PubSpec == PubInit /\ [][PubNext]_vars


\* A run that is never stopped: the background task and the heartbeat
\* collaborator, with start() the only call made.  The task is a FreeRTOS
\* task of priority 5 that blocks only in its retry delay, so it takes its
\* next step whenever it has one.
LiveNext == TaskStep \/ HeartbeatStep \/ StartStep

LiveSpec == Init /\ [][LiveNext]_vars /\ WF_vars(TaskStep)

Start2Step == Start2Check \/ Start2Create

\* Two callers of start(): a build without heartbeat, the background task,
\* the control thread calling start() and stop(), and a second application
\* task calling start() on its own, at any moment.
RaceNext == CoreTaskStep \/ StartStep \/ CoreStopStep \/ Start2Step

RaceSpec == PubInit /\ [][RaceNext]_vars

QueryStep == QueryCheck \/ QueryCall \/ QueryReply

RegisterStep == RegisterWriteCallback \/ RegisterWriteContext

\* The query responder: a client whose task has opened the session, made
\* every declaration and set Declared (the state Spec reaches by start() and
\* a run of the task without failure), then inbound queries handled on the
\* session's read task while an application thread registers providers.
QInit ==
    /\ role = ZENOH_ROLE_CLIENT
    /\ transport \in {t \in Transports : ConfigValid(ZENOH_ROLE_CLIENT, t)}
    /\ heartbeat_on = FALSE
    /\ session = "valid" /\ zenoh_task_handle = 1 /\ app_event_group = 1
    /\ main_subscriber = "valid" /\ main_publisher = "valid"
    /\ g_publisher_declared = TRUE /\ queryable = "valid"
    /\ g_query_provider = NULL /\ g_query_provider_ctx = NULL
    /\ heartbeat_publisher = "null" /\ subscriber_heartbeat = "null"
    /\ heartbeat_task_handle = NULL
    /\ bits = [g \in EventGroups |->
                 IF g = 1 THEN {ZENOH_CONNECTED_BIT, ZENOH_DECLARED_BIT} ELSE {}]
    /\ tpc = "idle" /\ net_info = NoNetInfo /\ config = NoConfig /\ res = Z_OK
    /\ sesson_opened = TRUE
    /\ hpc = "none" /\ hb_group = NoGroup /\ hb_sent = 0 /\ hb_orphans = 0
    /\ cpc = "idle" /\ calls = 1
    /\ ppc = "idle" /\ pubs = 0 /\ buf_frees = << >> /\ payload_owner = "none"
    /\ qpc = "idle" /\ q_cb = NULL /\ q_ctx = NULL /\ queries = 0 /\ replies = << >>
    /\ rpc = "idle" /\ r_arg = << NULL, NULL >>
    /\ crashed = FALSE
    /\ attempts = 0 /\ failures = 0 /\ slept_ms = 0 /\ rw_started = TRUE
    /\ declared = [d \in Decls |-> "ok"]
    /\ released = [h \in Handles |-> 0]
    /\ stops_in_row = 0 /\ stop_calls = 0 /\ starts = 1
    /\ pub_log = NoCall /\ last_open = NoConfig
    /\ data_handler = 1
    /\ pub_key = KEYEXPR_PUB(ZENOH_ROLE_CLIENT) /\ sub_key = KEYEXPR_SUB(ZENOH_ROLE_CLIENT)
    /\ c_arg = NoArgs /\ cpc2 = "idle" /\ task_orphans = 0
    /\ set_calls = [b \in {ZENOH_CONNECTED_BIT, ZENOH_DECLARED_BIT} |-> 1]

QNext == QueryStep \/ RegisterStep

QSpec == QInit /\ [][QNext]_vars

\* ------------------------------------------------------------ claims
RetryPcs    == {"entry", "config", "open", "delay"}
DeclarePcs  == {"decl_sub", "decl_pub", "pub_flag", "decl_query",
                "hb_pub", "hb_sub", "hb_task", "set_declared"}
OpenedPcs   == {"rw_tasks", "idle"} \cup DeclarePcs
AllAttempted == \A d \in Applicable : declared[d] # "none"

\* C1: the background task sets Connected only after a z_open that succeeded.
\* While the task is in its retry loop every attempt so far has failed, no
\* readiness bit changes, the read/lease tasks are not started and no
\* declaration is attempted; the step that sets Connected is taken with
\* sesson_opened true, after attempt number failures + 1, on the event group
\* handed to start(); and from then on the task sees Connected set.
C1_ConnectedOnlyAfterOpen ==
    /\ [](tpc \in RetryPcs =>
            (~sesson_opened /\ attempts = failures /\ ~rw_started /\ declared = NoDecls))
    /\ [](tpc = "connected" =>
            (sesson_opened /\ res = Z_OK /\ attempts = failures + 1 /\ declared = NoDecls))
    /\ [][(tpc \in RetryPcs => (bits' = bits))]_vars
    /\ [][\A g \in EventGroups :
            (ZENOH_CONNECTED_BIT \in bits'[g] /\ ZENOH_CONNECTED_BIT \notin bits[g])
               => (tpc = "connected" /\ sesson_opened /\ g = app_event_group)]_vars
    /\ [](tpc \in OpenedPcs => ConnectedFlag)

\* Two attempts failed, the third succeeded, and Connected has just been set
\* in the first run.
C1_Witness ==
    /\ tpc = "rw_tasks" /\ failures = 2 /\ attempts = 3
    /\ ConnectedFlag /\ stop_calls = 0

\* C2: every failed z_open, whatever its error code, leads to the delay and
\* nowhere else; the delay lasts RETRY_DELAY_MS once and leads back to a new
\* configuration and a new attempt (unless stop() deletes the task); a
\* successful z_open goes on without a delay; the task is past the loop only
\* with the session opened.
C2_RetryForever ==
    /\ [][(tpc = "open" /\ res' \in OpenErrors)
            => (tpc' = "delay" /\ failures' = failures + 1 /\ slept_ms' = slept_ms)]_vars
    /\ [][(tpc = "open" /\ res' = Z_OK)
            => (tpc' = "connected" /\ failures' = failures /\ slept_ms' = slept_ms)]_vars
    /\ [][(tpc = "delay" /\ tpc' # "delay")
            => \/ tpc' = "config" /\ slept_ms' = slept_ms + RETRY_DELAY_MS
               \/ tpc' = "none"]_vars
    /\ [][(tpc = "config" /\ tpc' # "config") => tpc' \in {"open", "none"}]_vars
    /\ [](tpc \in {"config", "open", "connected"} => slept_ms = RETRY_DELAY_MS * failures)
    /\ [](tpc = "delay" =>
            (res \in OpenErrors /\ slept_ms = RETRY_DELAY_MS * (failures - 1)))
    /\ [](tpc \in OpenedPcs \cup {"connected"} => sesson_opened)

\* The third attempt is about to be made, two delays after the first.
C2_Witness ==
    /\ tpc = "open" /\ attempts = 2 /\ failures = 2
    /\ slept_ms = 2 * RETRY_DELAY_MS

\* C3: until the first stop(), Declared is set only when every applicable
\* declaration (subscriber, publisher, and the query responder for the role
\* that answers queries) has been attempted and has returned; and in any run
\* the step that sets Declared is the task's, taken after all of them.
C3_DeclaredAfterAllAttempts ==
    /\ []((stop_calls = 0 /\ DeclaredFlag) => AllAttempted)
    /\ [][\A g \in EventGroups :
            (ZENOH_DECLARED_BIT \in bits'[g] /\ ZENOH_DECLARED_BIT \notin bits[g])
               => (tpc = "set_declared" /\ g = app_event_group /\ AllAttempted)]_vars

\* Declared is set in the first run of a client, whose publisher declaration
\* failed and whose query-responder declaration succeeded.
C3_Witness ==
    /\ stop_calls = 0 /\ DeclaredFlag /\ role = ZENOH_ROLE_CLIENT
    /\ declared["pub"] = "fail" /\ declared["query"] = "ok"


\* C4: in a run that is not stopped, once z_open has succeeded the Declared
\* flag is eventually set, whatever the results of the subscriber, publisher
\* and query-responder declarations; a failed declaration is followed by the
\* next one.
C4_DeclaredEventually ==
    /\ sesson_opened ~> DeclaredFlag
    /\ [][(tpc = "decl_sub" /\ tpc' # tpc) => tpc' = "decl_pub"]_vars
    /\ [][(tpc = "decl_pub" /\ declared'["pub"] = "fail") => tpc' = AfterPub]_vars
    /\ [][(tpc = "decl_query" /\ tpc' # tpc) => tpc' = AfterQuery]_vars

\* Declared is set although all three declarations of a client failed.
C4_Witness ==
    /\ DeclaredFlag /\ role = ZENOH_ROLE_CLIENT /\ tpc = "idle"
    /\ \A d \in Decls : declared[d] = "fail"


PutAttempted == {"sent", "send_failed", "fault"}

\* C5 as stated: a publish call made while Declared is unset makes no send.
C5_Original ==
    (pub_log.op = "publish" /\ ~pub_log.bit) => pub_log.result \notin PutAttempted

\* C5, amended: a publish call that finds g_publisher_declared unset returns
\* without sending, and a call goes on to z_put only with it set; the flag is
\* set by the task alone, after a publisher declaration that succeeded, so
\* every publish made before that returns without sending.  (The Declared
\* flag is not what the gateway tests.)
C5_NoSendBeforePublisherDeclared ==
    /\ []((pub_log.op = "publish" /\ ~pub_log.flag) => pub_log.result = "not_declared")
    /\ [](~g_publisher_declared =>
            (ppc # "pub_put" /\ (pub_log.op = "publish" => pub_log.result = "not_declared")))
    /\ [][(ppc = "idle" /\ ppc' = "pub_put") => g_publisher_declared]_vars
    /\ [][(~g_publisher_declared /\ g_publisher_declared')
            => (tpc = "pub_flag" /\ declared["pub"] = "ok" /\ main_publisher = "valid")]_vars

\* A publish made while the task was past a failed or pending publisher
\* declaration, with Declared unset, has returned without sending.
C5_Witness ==
    /\ pub_log.op = "publish" /\ ~pub_log.bit /\ ~pub_log.flag
    /\ pub_log.result = "not_declared" /\ ppc = "idle"
    /\ sesson_opened /\ ~g_publisher_declared

C7_BufferFreedOnce ==
    /\ Len(buf_frees) <= 1
    /\ (ppc \in {"bin_wrap", "bin_put"} => buf_frees = << >>)
    /\ (pub_log.op = "publish_binary" /\ ppc = "idle" /\ ~crashed)
          => (/\ Len(buf_frees) = 1
              /\ payload_owner = "freed"
              /\ pub_log.result \in {"not_declared", "wrap_failed", "send_failed", "sent"})

\* The wrapping failed after the library had run the deleter, and the gateway
\* freed the buffer again.
C7_Witness ==
    /\ pub_log.op = "publish_binary" /\ ppc = "idle"
    /\ pub_log.result = "wrap_failed"
    /\ buf_frees = << "free", "free" >>

\* C8: every query the handler has finished with has exactly one reply, and
\* the reply to a query that found no provider registered, or whose provider
\* returned a failure, is an error reply; a data reply is sent only for a
\* provider that was called and returned 0.
C8_ErrorReplyOnNoProviderOrFailure ==
    /\ \A i \in 1..Len(replies) :
          /\ (~replies[i].called \/ replies[i].rc # 0) => replies[i].kind = "err"
          /\ replies[i].kind = "data" => (replies[i].called /\ replies[i].rc = 0)
    /\ qpc = "idle" => Len(replies) = queries
    /\ qpc \in {"call", "provider"} => Len(replies) = queries - 1

\* One query found no provider, a second one's provider failed; both have
\* their error reply.
C8_Witness ==
    /\ qpc = "idle" /\ queries = 2 /\ Len(replies) = 2
    /\ ~replies[1].called /\ replies[1].kind = "err"
    /\ replies[2].called /\ replies[2].rc # 0 /\ replies[2].kind = "err"

\* C9: over the stop() calls made since the last start(), no handle (task,
\* session, subscriber, publisher, query responder, heartbeat resources) is
\* released more than once; once a stop() has returned, the task handle and
\* the session, subscriber and query-responder handles are null, and a
\* further stop() releases none of the task, session, subscriber, publisher
\* and query responder again.
C9_SecondStopReleasesNothing ==
    /\ [](\A h \in Handles : released[h] <= 1)
    /\ [][(stops_in_row >= 1 /\ stops_in_row' >= 1) =>
            \A h \in {"task", "session", "sub", "pub", "query"} :
                released'[h] = released[h]]_vars
    /\ [](stops_in_row >= 1 =>
            (/\ zenoh_task_handle = NULL
             /\ session = "null" /\ main_subscriber = "null" /\ queryable = "null"
             /\ (g_publisher_declared => main_publisher = "null")))

\* Two stop() calls in succession have returned after a run that had opened
\* the session and declared its subscriber and publisher: each was released
\* once.
C9_Witness ==
    /\ stops_in_row = 2 /\ cpc = "idle"
    /\ released["task"] = 1 /\ released["session"] = 1 /\ released["pub"] = 1
    /\ released["sub"] = 1

\* C10 as stated: once stop() has returned, StopRequested is set in the
\* readiness signal.
C10_Original ==
    (stops_in_row >= 1 /\ app_event_group # NoGroup)
        => ZENOH_STOP_BIT \in bits[app_event_group]

\* C10, amended: stop() ends the background task by deleting it and clearing
\* its handle; neither stop() nor any other operation sets StopRequested, the
\* task ends only by that deletion, and the deletion changes no readiness
\* flag.
C10_StopDeletesTask ==
    /\ [](\A g \in EventGroups : ZENOH_STOP_BIT \notin bits[g])
    /\ [](stops_in_row >= 1 => (tpc = "none" /\ zenoh_task_handle = NULL))
    /\ [][(tpc # "none" /\ tpc' = "none")
            => (/\ cpc \in {"idle", "stop_task"} /\ cpc' = StopAfterTask
                /\ zenoh_task_handle # NULL /\ zenoh_task_handle' = NULL
                /\ bits' = bits)]_vars

\* stop() has returned on a task that was idling with Declared set: the task
\* is gone, and the readiness signal holds Connected and Declared only.
C10_Witness ==
    /\ stops_in_row = 1 /\ cpc = "idle" /\ tpc = "none"
    /\ released["task"] = 1 /\ rw_started
    /\ app_event_group # NoGroup
    /\ bits[app_event_group] = {ZENOH_CONNECTED_BIT, ZENOH_DECLARED_BIT}

\* C11: from the moment a stop() has returned until the next start(), the
\* background task does not exist and nothing it does happens: no further
\* open attempt, no read/lease start, no declaration, no readiness flag set,
\* whichever phase the task was in when stop() deleted it.
C11_NoTaskStepAfterStop ==
    [][(stops_in_row >= 1 /\ stops_in_row' >= 1) =>
          (/\ tpc = "none" /\ tpc' = "none"
           /\ attempts' = attempts /\ failures' = failures
           /\ last_open' = last_open /\ rw_started' = rw_started
           /\ declared' = declared /\ keyVars' = keyVars
           /\ bits' = bits)]_vars

\* stop() has returned on a task that was between its subscriber and its
\* publisher declaration: the publisher was never attempted and Declared
\* never set.
C11_Witness ==
    /\ stops_in_row >= 1 /\ cpc = "idle" /\ tpc = "none"
    /\ released["task"] = 1
    /\ declared["sub"] = "ok" /\ declared["pub"] = "none"
    /\ ConnectedFlag /\ ~DeclaredFlag

\* What the manager holds: its handles, the readiness signal it was given and
\* the bits of every event group, the background task with its argument and
\* locals, the heartbeat collaborator, and the history of the task's run.
ManagerState == << coreHandles, zenoh_task_handle, app_event_group, data_handler,
                   bits, tpc, taskLocals, hbVars, runVars, keyVars, set_calls,
                   task_orphans >>

\* C12: a start() call made while the background task is running (the task
\* handle is set) returns at once and changes nothing of the manager: no
\* second task is created, and the stored event group and the data handler the
\* task was created with stay those of the first call, whatever arguments
\* the second call was given.
C12_StartWhileRunningChangesNothing ==
    /\ [][(cpc = "idle" /\ starts' = starts + 1 /\ zenoh_task_handle # NULL) =>
            (/\ cpc' = "idle" /\ c_arg' = c_arg
             /\ ManagerState' = ManagerState)]_vars
    /\ [](task_orphans = 0)
    /\ [](tpc # "none" => (data_handler # NULL /\ data_handler = app_event_group))

\* A second start() has returned while the task of the first one is running
\* with Connected set and no stop() was ever called: the event group and the
\* handler are those of the first call.
C12_Witness ==
    /\ starts = 2 /\ stop_calls = 0 /\ cpc = "idle"
    /\ tpc = "idle" /\ zenoh_task_handle # NULL
    /\ app_event_group = 1 /\ data_handler = 1
    /\ ConnectedFlag

\* The background tasks alive: the one zenoh_task_handle names and those
\* whose handle was overwritten.
LiveTasks == (IF tpc # "none" THEN 1 ELSE 0) + task_orphans

\* C13: under any interleaving of start() and stop() calls from two tasks,
\* two concurrent start() calls included, at most one background task is
\* alive at any time.
C13_AtMostOneTask == LiveTasks <= 1

\* Both callers passed the guard on a null task handle before either had
\* created its task: two background tasks are alive, one of them named by no
\* handle, and no stop() was ever called.
C13_Witness ==
    /\ LiveTasks = 2 /\ stop_calls = 0 /\ starts = 2
    /\ cpc = "idle" /\ cpc2 = "idle"

\* C14: stop() releases the publisher before the query responder, the query
\* responder before the subscriber and the subscriber before the session,
\* the heartbeat resources before all of them; and whenever the session has
\* been released, no resource declared on it (publisher, query responder,
\* subscriber, heartbeat publisher and subscriber) is still held.
C14_SessionReleasedLast ==
    /\ [][/\ (released'["pub"] > released["pub"]) =>
               (released["query"] = 0 /\ released["sub"] = 0 /\ released["session"] = 0)
          /\ (released'["query"] > released["query"]) =>
               (released["sub"] = 0 /\ released["session"] = 0)
          /\ (released'["sub"] > released["sub"]) => released["session"] = 0
          /\ (session = "valid" /\ session' = "null") =>
               (/\ cpc = "stop_session"
                /\ heartbeat_on => heartbeat_task_handle = NULL)]_vars
    /\ [](session = "null" =>
            (/\ main_publisher = "null" /\ queryable = "null"
             /\ main_subscriber = "null"
             /\ heartbeat_publisher = "null" /\ subscriber_heartbeat = "null"))

\* stop() has returned after deleting the task between the publisher
\* declaration that succeeded and the assignment that records it: the session
\* is released and the publisher declared on it is still held.
C14_Witness ==
    /\ stops_in_row = 1 /\ cpc = "idle" /\ tpc = "none"
    /\ released["session"] = 1 /\ released["pub"] = 0
    /\ session = "null" /\ main_publisher = "valid" /\ ~g_publisher_declared

\* C15: no step of the manager (background task, start, stop, publish,
\* publish_owned) removes a bit from an event group, so Connected and
\* Declared, once set, stay set; the only steps that change an event group
\* are the task's two xEventGroupSetBits calls, each of which adds its one
\* bit to the group handed to start(); and in one run of the task each of
\* the two calls is made at most once.
C15_FlagsMonotonic ==
    /\ [][\A g \in EventGroups : bits[g] \subseteq bits'[g]]_vars
    /\ [][(bits' # bits) =>
            \E b \in {ZENOH_CONNECTED_BIT, ZENOH_DECLARED_BIT} :
               /\ set_calls' = [set_calls EXCEPT ![b] = @ + 1]
               /\ bits' = [bits EXCEPT ![app_event_group] = @ \cup {b}]]_vars
    /\ [](\A b \in DOMAIN set_calls : set_calls[b] <= 1)
    /\ []((tpc # "none" /\ set_calls[ZENOH_DECLARED_BIT] = 1) =>
            (set_calls[ZENOH_CONNECTED_BIT] = 1 /\ ConnectedFlag /\ DeclaredFlag))

\* A run that was never stopped has set Connected and Declared once each, and
\* a publish_owned call has sent its payload since: both flags are still set.
C15_Witness ==
    /\ stop_calls = 0 /\ tpc = "idle"
    /\ set_calls[ZENOH_CONNECTED_BIT] = 1 /\ set_calls[ZENOH_DECLARED_BIT] = 1
    /\ pub_log.op = "publish_binary" /\ pub_log.result = "sent" /\ ppc = "idle"
    /\ ConnectedFlag /\ DeclaredFlag

\* C16: once every register_query_provider call made so far has returned,
\* the registered pair is that of the most recent call; a query received
\* then tests that call's callback, and, no registration being in progress
\* when the handler makes its call, invokes that callback with that call's
\* context (no callback at all when the most recent call unregistered).
C16_LatestProviderInvoked ==
    /\ [](rpc = "idle" => << g_query_provider, g_query_provider_ctx >> = r_arg)
    /\ [][(qpc = "idle" /\ queries' = queries + 1 /\ rpc = "idle") =>
            (/\ q_cb' = r_arg[1]
             /\ (r_arg[1] = NULL) => (qpc' = "idle" /\ replies' = Append(replies, NoProviderReply)))]_vars
    /\ [][(qpc = "call" /\ qpc' = "provider" /\ rpc = "idle" /\ q_cb = r_arg[1]) =>
            (q_cb' = r_arg[1] /\ q_ctx' = r_arg[2])]_vars

\* Provider 1 was registered and answered a query; then provider 2 was
\* registered, the call returned, and the next query was answered by
\* provider 2 with context 2.
C16_Witness ==
    /\ rpc = "idle" /\ qpc = "idle" /\ r_arg = << 2, 2 >>
    /\ Len(replies) = 2
    /\ replies[1].called /\ replies[1].cb = 1 /\ replies[1].ctx = 1
    /\ replies[2].called /\ replies[2].cb = 2 /\ replies[2].ctx = 2

\* C17 as stated: a message sent by publish or publish_owned goes out on the
\* role's mapped outbound topic, whatever key expression the caller passed.
C17_Original ==
    pub_log.result = "sent" => pub_log.sent_on = KEYEXPR_PUB(role)

\* C17, amended: a message sent by publish or publish_owned is put on the
\* session under the key expression the caller passed; a call that did not
\* send put nothing on any key.
C17_SentOnCallerKey ==
    /\ pub_log.result = "sent" =>
          (pub_log.keyexpr \in CallerKeys /\ pub_log.sent_on = pub_log.keyexpr)
    /\ pub_log.result # "sent" => pub_log.sent_on = NoKey

\* A publish_owned call was given the role's inbound topic while the
\* publisher was declared on the outbound one: the message went out on the
\* inbound topic.
C17_Witness ==
    /\ pub_log.op = "publish_binary" /\ pub_log.result = "sent"
    /\ pub_log.keyexpr = KEYEXPR_SUB(role) /\ pub_log.sent_on = KEYEXPR_SUB(role)
    /\ pub_key = KEYEXPR_PUB(role) /\ main_publisher = "valid"

\* C18: of the six (role, transport) pairs, the build is rejected for
\* exactly (Server, TCP_CLIENT) and (Client, TCP_PEER).  A rejected pair
\* yields no program: start() cannot be called, no task exists, no
\* configuration is built and no z_open is attempted, ever.  For each of the
\* other four pairs start() can be called on the freshly loaded image.
C18_ValidationRejectsExactly ==
    LET Rejected == {<< ZENOH_ROLE_SERVER, ZENOH_TRANSPORT_TCP_CLIENT >>,
                     << ZENOH_ROLE_CLIENT, ZENOH_TRANSPORT_TCP_PEER >>}
    IN  /\ << role, transport >> \in Roles \X Transports
        /\ << role, transport >> \in Rejected =>
              (/\ ~ENABLED Next
               /\ calls = 0 /\ starts = 0 /\ tpc = "none" /\ zenoh_task_handle = NULL
               /\ config = NoConfig /\ attempts = 0 /\ last_open = NoConfig
               /\ session = "null" /\ bits = [g \in EventGroups |-> {}])
        /\ (<< role, transport >> \notin Rejected /\ calls = 0 /\ cpc = "idle") =>
              ENABLED StartCheck

\* A server built for TCP_PEER, an accepted pair, has had a z_open attempt
\* fail and is in its retry delay.
C18_Witness ==
    /\ role = ZENOH_ROLE_SERVER /\ transport = ZENOH_TRANSPORT_TCP_PEER
    /\ tpc = "delay" /\ failures = 1 /\ attempts = 1
    /\ last_open # NoConfig

\* C19: the key expressions the subscriber and the publisher are declared on
\* depend on the role only and are the same in every run: a client publishes
\* on faces/announcements and subscribes to faces/results, a server the
\* reverse; each role's outbound topic is the other role's inbound topic, no
\* role subscribes to its own outbound topic, and no step changes the role
\* or a key expression once a declaration was made on it.
C19_TopicsByRole ==
    /\ [](pub_key \in {NoKey, IF role = ZENOH_ROLE_CLIENT THEN "faces/announcements"
                                                         ELSE "faces/results"})
    /\ [](sub_key \in {NoKey, IF role = ZENOH_ROLE_CLIENT THEN "faces/results"
                                                         ELSE "faces/announcements"})
    /\ []((pub_key # NoKey /\ sub_key # NoKey) => pub_key # sub_key)
    /\ [](\A r1, r2 \in Roles :
             (r1 # r2) => (KEYEXPR_PUB(r1) = KEYEXPR_SUB(r2) /\ KEYEXPR_PUB(r1) # KEYEXPR_SUB(r1)))
    /\ [][/\ role' = role
          /\ (pub_key # NoKey /\ pub_key' # NoKey) => pub_key' = pub_key
          /\ (sub_key # NoKey /\ sub_key' # NoKey) => sub_key' = sub_key]_vars

\* A server, stopped and started again, has made both declarations a second
\* time: it publishes on faces/results and subscribes to faces/announcements.
C19_Witness ==
    /\ role = ZENOH_ROLE_SERVER /\ starts = 2 /\ stop_calls >= 1
    /\ tpc = "idle"
    /\ pub_key = "faces/results" /\ sub_key = "faces/announcements"
    /\ main_publisher = "valid" /\ main_subscriber = "valid"

\* C20: the query responder is declared only in the client's build and get
\* exists only in the server's.  On a client the task attempts the
\* query-responder declaration in every run before it sets Declared; on a
\* server it never attempts it and the handle stays null.  get can be called
\* on a server whenever the application thread is free, and never on a
\* client; no role has both.
C20_QueryResponderOrGetByRole ==
    /\ (declared["query"] # "none" \/ queryable = "valid") => role = ZENOH_ROLE_CLIENT
    /\ (role = ZENOH_ROLE_CLIENT /\ set_calls[ZENOH_DECLARED_BIT] = 1) =>
          declared["query"] # "none"
    /\ pub_log.op = "get" => role = ZENOH_ROLE_SERVER
    /\ (Running /\ ppc = "idle" /\ pubs < MaxPub) =>
          ((ENABLED GetData) <=> role = ZENOH_ROLE_SERVER)
    /\ (ENABLED GetData) => (declared["query"] = "none" /\ queryable = "null")
    /\ \A r \in Roles : (QUERYABLE_ON(r) <=> r = ZENOH_ROLE_CLIENT)

\* A client has declared its query responder and then set Declared.
C20_Witness ==
    /\ role = ZENOH_ROLE_CLIENT /\ tpc = "idle"
    /\ declared["query"] = "ok" /\ queryable = "valid"
    /\ set_calls[ZENOH_DECLARED_BIT] = 1 /\ DeclaredFlag

\* C21: during and after a publish(topic, text) call, on every path
\* (publisher not declared, send failed, sent), the caller's text buffer has
\* not been freed and is still owned by the caller.
C21_PublishLeavesCallerBuffer ==
    pub_log.op = "publish" =>
        (/\ buf_frees = << >> /\ payload_owner = "caller"
         /\ (ppc = "idle" /\ ~crashed) =>
               pub_log.result \in {"not_declared", "send_failed", "sent"})

\* A publish call whose send failed has returned: the text was not freed.
C21_Witness ==
    /\ pub_log.op = "publish" /\ pub_log.result = "send_failed" /\ ppc = "idle"
    /\ session = "valid"
    /\ buf_frees = << >> /\ payload_owner = "caller"

\* C22: a publish or publish_owned call goes on to its z_put, and so sends,
\* only if, when it tested g_publisher_declared, the publisher declaration of
\* the current run of the background task had returned success: not while
\* that declaration is still to be made or in progress, and not after it
\* failed.
C22_SendsOnlyAfterPublisherDeclared ==
    (pub_log.op \in {"publish", "publish_binary"} /\ pub_log.result # "not_declared")
        => pub_log.decl = "ok"

\* After a run that declared its publisher, stop() and a second start(), a
\* publish call made when the second run's publisher declaration had failed
\* has sent its message.
C22_Witness ==
    /\ starts = 2 /\ stop_calls = 1 /\ declared["pub"] = "fail"
    /\ pub_log.op = "publish" /\ pub_log.decl = "fail" /\ pub_log.flag
    /\ pub_log.result = "sent"

\* C23: the steps of one run of the background task come in this order:
\* Connected is set after the open that succeeded and before anything else;
\* the read and lease tasks are started next; then the subscriber, the
\* publisher and (on a client) the query-responder declaration, each begun
\* only when the one before was attempted; the heartbeat init, when enabled,
\* only after all of them; and Declared last, after the heartbeat init when
\* enabled.  Hence a run that has set Declared has set Connected, and while
\* its task is alive both bits are set in its event group.
C23_RunOrder ==
    /\ [][/\ (set_calls'[ZENOH_CONNECTED_BIT] > set_calls[ZENOH_CONNECTED_BIT]) =>
               (sesson_opened /\ res = Z_OK /\ ~rw_started /\ declared = NoDecls)
          /\ (rw_started' /\ ~rw_started) =>
               (set_calls[ZENOH_CONNECTED_BIT] = 1 /\ declared = NoDecls)
          /\ (declared["sub"] = "none" /\ declared'["sub"] # "none") =>
               (rw_started /\ declared["pub"] = "none")
          /\ (declared["pub"] = "none" /\ declared'["pub"] # "none") =>
               (declared["sub"] # "none" /\ declared["query"] = "none")
          /\ (declared["query"] = "none" /\ declared'["query"] # "none") =>
               (declared["pub"] # "none" /\ role = ZENOH_ROLE_CLIENT
                /\ set_calls[ZENOH_DECLARED_BIT] = 0)
          /\ (tpc \in {"hb_pub", "hb_sub", "hb_task"} /\ tpc' # tpc /\ tpc' # "none") =>
               (heartbeat_on /\ AllAttempted /\ set_calls[ZENOH_DECLARED_BIT] = 0)
          /\ (tpc # "set_declared" /\ tpc' = "set_declared") =>
               (AllAttempted' /\ (heartbeat_on <=> tpc = "hb_task"))
          /\ (set_calls'[ZENOH_DECLARED_BIT] > set_calls[ZENOH_DECLARED_BIT]) =>
               (tpc = "set_declared" /\ AllAttempted
                /\ set_calls[ZENOH_CONNECTED_BIT] = 1 /\ rw_started)]_vars
    /\ [](set_calls[ZENOH_DECLARED_BIT] = 1 => set_calls[ZENOH_CONNECTED_BIT] = 1)
    /\ []((tpc # "none" /\ set_calls[ZENOH_DECLARED_BIT] = 1) =>
            {ZENOH_CONNECTED_BIT, ZENOH_DECLARED_BIT} \subseteq bits[app_event_group])

\* A client with the heartbeat enabled has gone through every step of the
\* order, the query responder and the heartbeat init included, and has set
\* Declared.
C23_Witness ==
    /\ role = ZENOH_ROLE_CLIENT /\ heartbeat_on /\ stop_calls = 0
    /\ tpc = "idle" /\ rw_started
    /\ \A d \in Decls : declared[d] # "none"
    /\ heartbeat_task_handle # NULL
    /\ set_calls[ZENOH_CONNECTED_BIT] = 1 /\ set_calls[ZENOH_DECLARED_BIT] = 1

\* C24: the i-th reply answers the i-th query, so no query has two replies;
\* and when the provider was called for a query and returned 0, that one
\* reply is a data reply (not an error reply) on the query's own key
\* expression, carrying the payload the provider stored.
C24_DataReplyOnSuccess ==
    /\ Len(replies) <= queries
    /\ \A i \in 1..Len(replies) :
          replies[i].called =>
             (/\ replies[i].query = i
              /\ replies[i].rc = 0 =>
                    (/\ replies[i].kind = "data"
                     /\ replies[i].key = QueryKey(i)
                     /\ replies[i].payload
                           = << "payload", replies[i].cb, replies[i].ctx >>))

\* Provider 2 is registered; the second query was answered by it with
\* success and has its data reply, after a first query that it failed.
C24_Witness ==
    /\ qpc = "idle" /\ queries = 2 /\ Len(replies) = 2
    /\ replies[1].called /\ replies[1].rc # 0 /\ replies[1].kind = "err"
    /\ replies[2].called /\ replies[2].rc = 0 /\ replies[2].kind = "data"
    /\ replies[2].cb = 2 /\ replies[2].key = QueryKey(2)

\* C25: within one run of the background task each declaration is attempted
\* once: its outcome is recorded once, is never revised, and is forgotten only
\* when start() creates the next task; every applicable declaration has been
\* attempted when the run reaches the setting of Declared.  A failed
\* declaration is therefore not retried, and a publish or publish_owned call
\* that tests the flag after the publisher declaration of the current run
\* failed returns without sending.
C25_DeclaredOnceAndFailedPublisherSilences ==
    /\ [][\A d \in Decls :
            declared'[d] # declared[d] =>
               \/ declared[d] = "none" /\ d \in Applicable
                     /\ \A e \in Decls \ {d} : declared'[e] = declared[e]
               \/ declared' = NoDecls /\ zenoh_task_handle = NULL
                     /\ zenoh_task_handle' # NULL]_vars
    /\ [](tpc = "set_declared" => AllAttempted)
    /\ []((pub_log.op \in {"publish", "publish_binary"} /\ pub_log.decl = "fail")
            => pub_log.result = "not_declared")

\* In the second session the publisher declaration failed, once, and a
\* publish_owned call made after that failure has sent its message.
C25_Witness ==
    /\ starts = 2 /\ stop_calls = 1 /\ tpc # "none" /\ declared["pub"] = "fail"
    /\ pub_log.op = "publish_binary" /\ pub_log.decl = "fail"
    /\ pub_log.result = "sent"

\* C26: the configuration the task builds for its (role, transport) pair has
\* exactly one endpoint kind: for TCP_CLIENT the mode is client, with a
\* connect endpoint and no listen endpoint; for TCP_PEER and UDP_PEER the
\* mode is peer, with a listen endpoint and no connect endpoint.
C26_OneEndpointKind ==
    \A c \in {config, last_open} \ {NoConfig} :
        /\ (c.connect = NoEndpoint) # (c.listen = NoEndpoint)
        /\ transport = ZENOH_TRANSPORT_TCP_CLIENT =>
              (c.mode = "client" /\ c.connect # NoEndpoint /\ c.listen = NoEndpoint)
        /\ transport \in {ZENOH_TRANSPORT_TCP_PEER, ZENOH_TRANSPORT_UDP_PEER} =>
              (c.mode = "peer" /\ c.listen # NoEndpoint /\ c.connect = NoEndpoint)

\* A client on TCP_CLIENT has built its configuration: it connects to the
\* server's address and listens nowhere.
C26_Witness ==
    /\ role = ZENOH_ROLE_CLIENT /\ transport = ZENOH_TRANSPORT_TCP_CLIENT
    /\ tpc = "open" /\ config.mode = "client"
    /\ config.connect = << "tcp", ZENOH_SERVER_IP, ZENOH_PORT >>
    /\ config.listen = NoEndpoint

\* C27: every z_open is passed a configuration built in the same pass of the
\* retry loop: the object is live when the open is made, is consumed by it,
\* and is the value BuildConfig gives for the static configuration and the
\* network info captured at task start; hence every attempt after the first
\* is made with the same mode and endpoints as the attempt before it, and a
\* consumed configuration is never the argument of an open.
C27_FreshConfigPerAttempt ==
    /\ [][attempts' = attempts + 1 =>
            /\ tpc = "open"
            /\ config # NoConfig
            /\ config = BuildConfig(role, transport, net_info)
            /\ last_open' = config
            /\ config' = NoConfig
            /\ attempts >= 1 =>
                  (/\ last_open'.mode = last_open.mode
                   /\ last_open'.connect = last_open.connect
                   /\ last_open'.listen = last_open.listen)]_vars
    /\ [][(tpc' = "open" /\ tpc # "open") =>
            (tpc = "config" /\ config = NoConfig /\ config' # NoConfig)]_vars
    /\ [](tpc = "open" => config # NoConfig)

\* Two opens have failed and consumed their configurations; the third pass
\* of the loop has built a new one, equal to the one the last open consumed.
C27_Witness ==
    /\ failures = 2 /\ attempts = 2 /\ tpc = "open"
    /\ config # NoConfig /\ config = last_open

\* C28: a publish or publish_owned call reaches its z_put with no send
\* attempt made yet, and returns to its caller right after the z_put, so it
\* makes at most one; and a z_put that fails changes nothing of the manager:
\* the handles, the publisher-declared flag, the event-group bits and the
\* background task are as they were, so the next call passes the same test
\* and goes on to its own z_put.
C28_OneSendAndFailureChangesNothing ==
    /\ [][(ppc \in {"pub_put", "bin_put"} /\ pub_log'.result # pub_log.result) =>
            /\ pub_log.result = "pending"
            /\ ppc' = "idle"
            /\ pubs' = pubs
            /\ pub_log'.result = "send_failed" =>
                  (/\ ManagerState' = ManagerState
                   /\ ~crashed'
                   /\ g_publisher_declared' /\ PublishGuard')]_vars
    /\ [](ppc \in {"pub_put", "bin_put"} => pub_log.result = "pending")
    /\ []((ppc = "idle" /\ pub_log.result = "send_failed" /\ pubs < MaxPub
             /\ ~crashed /\ stops_in_row = 0 /\ stop_calls = 0)
            => (g_publisher_declared /\ ENABLED PublishCheck))

\* A publish_owned call's z_put has failed and the call has returned: the
\* publisher is still marked declared, both readiness flags are still set,
\* and a further call can be made.
C28_Witness ==
    /\ ppc = "idle" /\ pubs = 1 /\ pub_log.op = "publish_binary"
    /\ pub_log.result = "send_failed" /\ ~crashed
    /\ g_publisher_declared /\ session = "valid" /\ stop_calls = 0
    /\ ConnectedFlag /\ DeclaredFlag
    /\ ENABLED PublishCheck

\* C29: in a build with heartbeat, the heartbeat task is created only by the
\* last step of zenoh_heartbeat_init, which the background task runs before
\* it sets Declared in that run, with the run's event group as argument; the
\* heartbeat task leaves its wait only when the Declared bit is set in that
\* group, and a heartbeat is published only by a task that has left its wait,
\* at a time the Declared bit is set.
C29_NoHeartbeatBeforeDeclared ==
    /\ [][(hpc' = "wait" /\ (hpc # "wait" \/ hb_orphans' # hb_orphans)) =>
            (/\ heartbeat_on
             /\ tpc = "hb_task" /\ tpc' = "set_declared"
             /\ set_calls[ZENOH_DECLARED_BIT] = 0
             /\ hb_group' = app_event_group)]_vars
    /\ [][(hpc = "wait" /\ hpc' = "loop") =>
            ZENOH_DECLARED_BIT \in bits[hb_group]]_vars
    /\ [][hb_sent' # hb_sent =>
            (/\ hpc = "loop"
             /\ hb_sent' = hb_sent + 1
             /\ ZENOH_DECLARED_BIT \in bits[hb_group])]_vars
    /\ [](hpc = "loop" => ZENOH_DECLARED_BIT \in bits[hb_group])

\* In the first run the heartbeat task waited, the background task set
\* Declared, and the heartbeat task then published its first heartbeat.
C29_Witness ==
    /\ heartbeat_on /\ stop_calls = 0 /\ starts = 1
    /\ set_calls[ZENOH_DECLARED_BIT] = 1 /\ tpc = "idle"
    /\ hpc = "loop" /\ hb_sent = 1
    /\ ZENOH_DECLARED_BIT \in bits[hb_group]

\* The zenoh handles of the manager and of the heartbeat, by name.
OwnedHandles == Handles \ {"task", "hb_task"}
OwnedHandle == [h \in OwnedHandles |->
                  CASE h = "session" -> session
                    [] h = "sub"     -> main_subscriber
                    [] h = "pub"     -> main_publisher
                    [] h = "query"   -> queryable
                    [] h = "hb_pub"  -> heartbeat_publisher
                    [] h = "hb_sub"  -> subscriber_heartbeat]

C31_NoPublishAfterStop ==
    /\ [][(/\ ppc = "idle" /\ pubs' = pubs + 1
            /\ pub_log'.op \in {"publish", "publish_binary"}
            /\ stop_calls >= 1
            /\ session = "null" /\ main_publisher = "null")
           => (pub_log'.result = "not_declared" /\ ppc' = "idle")]_vars
    /\ [][(/\ ppc \in {"pub_put", "bin_put"}
            /\ pub_log.result = "pending" /\ pub_log'.result # "pending")
           => session = "valid"]_vars

\* stop() has returned after a run that declared its publisher, no start()
\* has followed and no publish call is in progress: the publisher and the
\* session are released, the publisher is still marked declared, and a
\* publish call made now goes on to its z_put.
C31_Witness ==
    /\ starts = 1 /\ stop_calls = 1 /\ stops_in_row = 1 /\ cpc = "idle"
    /\ tpc = "none" /\ session = "null" /\ main_publisher = "null"
    /\ released["pub"] = 1 /\ released["session"] = 1
    /\ ppc = "idle" /\ pubs = 0 /\ g_publisher_declared
    /\ ENABLED (PublishCheck /\ ppc' = "pub_put")

\* C32: in a run of the background task started after a stop(), the
\* Connected bit shows in the run's event group only once this run has
\* opened its session and set it, and the Declared bit only once this run
\* has finished its declaration attempts and set it.
C32_NoStaleFlagsAfterRestart ==
    (starts >= 2 /\ stop_calls >= 1 /\ tpc # "none") =>
        /\ ConnectedFlag =>
              (set_calls[ZENOH_CONNECTED_BIT] >= 1 /\ sesson_opened)
        /\ DeclaredFlag =>
              (set_calls[ZENOH_DECLARED_BIT] >= 1 /\ AllAttempted)

\* After a run that set both bits, stop() and a second start() with the same
\* event group, the new task is still in its retry loop with no session
\* open, and both bits show in the group.
C32_Witness ==
    /\ starts = 2 /\ stop_calls = 1 /\ cpc = "idle" /\ app_event_group = 1
    /\ tpc \in RetryPcs /\ session = "null" /\ ~sesson_opened
    /\ set_calls = NoSetCalls /\ declared = NoDecls
    /\ ConnectedFlag /\ DeclaredFlag

\* C33: whenever the handler invokes a provider, the callback and the
\* context it passes are the pair of one register_query_provider call, also
\* when a registration runs during the handling of the query.
C33_CallbackWithItsOwnContext ==
    /\ qpc = "provider" => << q_cb, q_ctx >> \in Registrations
    /\ \A i \in 1..Len(replies) :
          replies[i].called => << replies[i].cb, replies[i].ctx >> \in Registrations

\* Provider 1 was registered with context 1; a query arrived while the call
\* registering provider 2 with context 2 was between its two writes, and the
\* handler invoked provider 2 with context 1.
C33_Witness ==
    /\ Len(replies) >= 1
    /\ replies[Len(replies)].called
    /\ replies[Len(replies)].cb = 2 /\ replies[Len(replies)].ctx = 1
    /\ r_arg = << 2, 2 >>

\* C34: the handler never calls through a null provider pointer: a handler
\* that found a provider registered is, at its call, calling a provider,
\* also when register_query_provider(NULL, ...) ran after its test.
C34_NeverCallsNullProvider ==
    /\ qpc # "faulted"
    /\ qpc = "provider" => q_cb # NULL
    /\ \A i \in 1..Len(replies) : replies[i].called => replies[i].cb # NULL

\* The handler found provider 1 registered; the application unregistered it
\* before the handler's call, and the call went through the null pointer.
C34_Witness ==
    /\ qpc = "faulted" /\ crashed /\ q_cb = NULL
    /\ g_query_provider = NULL /\ r_arg = << NULL, NULL >>
    /\ queries = 1 /\ replies = << >>

\* C35: in a build with heartbeat, once stop() has returned (and until the
\* next start()) there is no heartbeat task, and the heartbeat publisher and
\* subscriber are not declared, wherever the background task was when stop()
\* was called.
C35_NoHeartbeatAfterStop ==
    (heartbeat_on /\ stops_in_row >= 1 /\ cpc = "idle") =>
        /\ hpc = "none" /\ heartbeat_task_handle = NULL
        /\ heartbeat_publisher = "null" /\ subscriber_heartbeat = "null"

\* stop() ran zenoh_heartbeat_stop while the background task had finished
\* the core declarations and not yet entered zenoh_heartbeat_init; the task
\* then ran init before stop() deleted it.  stop() has returned: the session
\* is released, and the heartbeat task, publisher and subscriber exist.
C35_Witness ==
    /\ heartbeat_on /\ starts = 1 /\ stop_calls = 1 /\ stops_in_row = 1
    /\ cpc = "idle" /\ tpc = "none" /\ session = "null"
    /\ released["hb_task"] = 0 /\ released["hb_pub"] = 0 /\ released["hb_sub"] = 0
    /\ hpc = "wait" /\ heartbeat_task_handle # NULL
    /\ heartbeat_publisher = "valid" /\ subscriber_heartbeat = "valid"

====
